---- MODULE Spec2Model ----
(***************************************************************************)
(* Model of the Gemma configuration registry (gemma/config.py) and of the  *)
(* SigLIP vision tower (gemma/siglip_vision/siglip_vision_model.py).       *)
(*                                                                         *)
(* Python's Optional[T] is modelled as a sequence of length at most one:   *)
(* <<>> is None and <<v>> is the value v.  Python strings are TLA+ strings *)
(* and f-string formatting is string concatenation.                        *)
(***************************************************************************)
EXTENDS Integers, Sequences, FiniteSets, TLC

VARIABLES
    \* ---- get_model_config / GemmaConfig.get_dtype ----
    cfg_pc,        \* "idle", "returned", "raised", "resolved"
    variant,       \* the variant argument of the call
    dtype,         \* the dtype argument of the call
    config,        \* Optional GemmaConfig returned by get_model_config
    error,         \* Optional message of the ValueError raised
    torch_dtype,   \* result of GemmaConfig.get_dtype ("None" for None)
    \* ---- AveragePool2D.forward ----
    ap_pc,         \* "idle", "checked", "reshaped", "pooled", "returned", "raised", "backend_error"
    ap_in,         \* the argument x of the call: its shape and its elements
    ap_x,          \* the local variable x of AveragePool2D.forward
    ap_shape,      \* the shape of x
    ap_width,      \* the local variable width
    ap_error,      \* Optional message of the ValueError raised
    \* ---- SiglipVisionModel: the module object ----
    vt_config,       \* Optional SiglipVisionModelConfig (None before __init__)
    vt_num_patches,  \* self.num_patches
    vt_num_positions,\* self.num_positions
    vt_position_ids, \* the buffer self.position_ids
    vt_params,       \* the weights of the sub-modules
    \* ---- SiglipVisionModel.forward: the call in progress ----
    vt_pc,           \* position of the call
    vt_pixels,       \* the argument pixel_values
    vt_x,            \* the local variable x, as the expression that computes it
    vt_shape,        \* the shape of x
    vt_layer,        \* index of the next encoder block of the for loop
    vt_error,        \* Optional message of the ValueError raised
    vt_seen,         \* Optional record of an earlier call: its input, its outcome,
                     \* and whether a call with another input has finished since
    vt_other         \* the locals of a second call of forward on the same module,
                     \* suspended while the call in progress runs

cfg_vars == <<cfg_pc, variant, dtype, config, error, torch_dtype>>
ap_vars == <<ap_pc, ap_in, ap_x, ap_shape, ap_width, ap_error>>
vt_module == <<vt_config, vt_num_patches, vt_num_positions, vt_position_ids, vt_params>>
vt_call == <<vt_pc, vt_pixels, vt_x, vt_shape, vt_layer, vt_error>>
vt_vars == <<vt_module, vt_call, vt_seen, vt_other>>
vars == <<cfg_vars, ap_vars, vt_vars>>

None == <<>>
Some(v) == <<v>>

-----------------------------------------------------------------------------
(***************************************************************************)
(* Strings                                                                 *)
(***************************************************************************)

\* Python's `needle in hay` for strings.
Contains(hay, needle) ==
    \E i \in 1..(Len(hay) - Len(needle) + 1) :
        SubSeq(hay, i, i + Len(needle) - 1) = needle

\* Python's str() of one decimal digit.
DigitStr(d) == SubSeq("0123456789", d + 1, d + 1)

\* Python's str() of a non-negative int, as the f-string {seq_len} formats it.
RECURSIVE IntToStr(_)
IntToStr(n) == IF n < 10 THEN DigitStr(n)
               ELSE IntToStr(n \div 10) \o DigitStr(n % 10)

\* Python's `seq * n` for a list.
RECURSIVE Repeat(_, _)
Repeat(seq, n) == IF n <= 0 THEN <<>> ELSE seq \o Repeat(seq, n - 1)

-----------------------------------------------------------------------------
(***************************************************************************)
(* gemma/config.py                                                         *)
(***************************************************************************)

GLOBAL == "GLOBAL"
LOCAL_SLIDING == "LOCAL_SLIDING"
AttentionType == {GLOBAL, LOCAL_SLIDING}

GEMMA_1 == "GEMMA_1"
GEMMA_2 == "GEMMA_2"
GEMMA_3 == "GEMMA_3"
Architecture == {GEMMA_1, GEMMA_2, GEMMA_3}

\* The dict _STR_DTYPE_TO_TORCH_DTYPE.
STR_DTYPE_TO_TORCH_DTYPE ==
    [k \in {"float16", "float", "float32", "bfloat16"} |->
        CASE k = "float16" -> "torch.float16"
          [] k = "float" -> "torch.float32"
          [] k = "float32" -> "torch.float32"
          [] k = "bfloat16" -> "torch.bfloat16"]

\* dict.get(key, None)
DictGet(d, key) == IF key \in DOMAIN d THEN d[key] ELSE "None"

\* The dataclass GemmaConfig with its field defaults.
GemmaConfig(d) ==
    [ architecture |-> GEMMA_1,
      vocab_size |-> 256000,
      max_position_embeddings |-> 8192,
      num_hidden_layers |-> 28,
      num_attention_heads |-> 16,
      num_key_value_heads |-> 16,
      hidden_size |-> 3072,
      intermediate_size |-> 24576,
      head_dim |-> 256,
      rms_norm_eps |-> "1e-6",
      dtype |-> d,
      quant |-> FALSE,
      tokenizer |-> Some("tokenizer/tokenizer.model"),
      attn_types |-> None,
      sliding_window_size |-> None,
      final_logit_softcapping |-> None,
      attn_logit_softcapping |-> None,
      query_pre_attn_scalar |-> None,
      use_pre_ffw_norm |-> FALSE,
      use_post_ffw_norm |-> FALSE,
      rope_wave_length |-> None,
      use_qk_norm |-> FALSE,
      vision_config |-> None,
      rope_scaling_factor |-> None ]

get_dtype_float64(c) ==
    IF c.dtype = "float" THEN "torch.float64"
    ELSE DictGet(STR_DTYPE_TO_TORCH_DTYPE, c.dtype)

\* GemmaConfig.get_dtype
get_dtype(c) == DictGet(STR_DTYPE_TO_TORCH_DTYPE, c.dtype)

\* The 5 local + 1 global tuple the Gemma 3 constructors pass as attn_types.
Gemma3AttnTypes ==
    <<LOCAL_SLIDING, LOCAL_SLIDING, LOCAL_SLIDING, LOCAL_SLIDING,
      LOCAL_SLIDING, GLOBAL>>

Gemma3RopeWaveLength ==
    [t \in AttentionType |-> IF t = LOCAL_SLIDING THEN 10000 ELSE 1000000]

Gemma3Tokenizer == "tokenizer/gemma3_cleaned_262144_v2.spiece.model"

\* The value of siglip_vision_config.get_siglip_vision_model_config(); the
\* registry only stores it.
SiglipVisionModelConfigRef == "siglip_vision_config.get_siglip_vision_model_config()"

get_config_for_7b(d) == GemmaConfig(d)

get_config_for_2b(d) ==
    [GemmaConfig(d) EXCEPT
        !.num_hidden_layers = 18,
        !.num_attention_heads = 8,
        !.num_key_value_heads = 1,
        !.hidden_size = 2048,
        !.intermediate_size = 16384]

get_config_for_2b_v2_short(d) ==
    [GemmaConfig(d) EXCEPT
        !.architecture = GEMMA_2,
        !.num_hidden_layers = 26,
        !.num_attention_heads = 8,
        !.num_key_value_heads = 4,
        !.hidden_size = 2304,
        !.intermediate_size = 9216,
        !.use_pre_ffw_norm = TRUE,
        !.use_post_ffw_norm = TRUE,
        !.final_logit_softcapping = Some(30),
        !.attn_logit_softcapping = Some(50),
        !.head_dim = 256,
        !.attn_types = Some(Repeat(<<LOCAL_SLIDING, GLOBAL>>, 12)),
        !.sliding_window_size = Some(4096)]

get_config_for_2b_v2(d) ==
    [GemmaConfig(d) EXCEPT
        !.architecture = GEMMA_2,
        !.num_hidden_layers = 26,
        !.num_attention_heads = 8,
        !.num_key_value_heads = 4,
        !.hidden_size = 2304,
        !.intermediate_size = 9216,
        !.use_pre_ffw_norm = TRUE,
        !.use_post_ffw_norm = TRUE,
        !.final_logit_softcapping = Some(30),
        !.attn_logit_softcapping = Some(50),
        !.head_dim = 256,
        !.attn_types = Some(Repeat(<<LOCAL_SLIDING, GLOBAL>>, 13)),
        !.sliding_window_size = Some(4096)]

get_config_for_9b(d) ==
    [GemmaConfig(d) EXCEPT
        !.architecture = GEMMA_2,
        !.num_hidden_layers = 42,
        !.num_attention_heads = 16,
        !.num_key_value_heads = 8,
        !.hidden_size = 3584,
        !.intermediate_size = 14336,
        !.use_pre_ffw_norm = TRUE,
        !.use_post_ffw_norm = TRUE,
        !.final_logit_softcapping = Some(30),
        !.attn_logit_softcapping = Some(50),
        !.head_dim = 256,
        !.attn_types = Some(Repeat(<<LOCAL_SLIDING, GLOBAL>>, 21)),
        !.sliding_window_size = Some(4096)]

get_config_for_27b(d) ==
    [GemmaConfig(d) EXCEPT
        !.architecture = GEMMA_2,
        !.num_hidden_layers = 46,
        !.num_attention_heads = 32,
        !.num_key_value_heads = 16,
        !.hidden_size = 4608,
        !.intermediate_size = 36864,
        !.use_pre_ffw_norm = TRUE,
        !.use_post_ffw_norm = TRUE,
        !.final_logit_softcapping = Some(30),
        !.attn_logit_softcapping = Some(50),
        !.head_dim = 128,
        !.attn_types = Some(Repeat(<<LOCAL_SLIDING, GLOBAL>>, 23)),
        !.sliding_window_size = Some(4096),
        !.query_pre_attn_scalar = Some(144)]

get_config_for_1b_no_window(d) ==
    [GemmaConfig(d) EXCEPT
        !.architecture = GEMMA_3,
        !.num_hidden_layers = 26,
        !.num_attention_heads = 4,
        !.num_key_value_heads = 1,
        !.hidden_size = 1152,
        !.intermediate_size = 6912,
        !.use_pre_ffw_norm = TRUE,
        !.use_post_ffw_norm = TRUE,
        !.head_dim = 256,
        !.attn_types = Some(Gemma3AttnTypes),
        !.rope_wave_length = Some(Gemma3RopeWaveLength),
        !.vocab_size = 262144,
        !.max_position_embeddings = 32768,
        !.tokenizer = Some(Gemma3Tokenizer),
        !.use_qk_norm = TRUE,
        !.vision_config = None]

get_config_for_1b(d) ==
    [GemmaConfig(d) EXCEPT
        !.architecture = GEMMA_3,
        !.num_hidden_layers = 26,
        !.num_attention_heads = 4,
        !.num_key_value_heads = 1,
        !.hidden_size = 1152,
        !.intermediate_size = 6912,
        !.use_pre_ffw_norm = TRUE,
        !.use_post_ffw_norm = TRUE,
        !.head_dim = 256,
        !.attn_types = Some(Gemma3AttnTypes),
        !.sliding_window_size = Some(512),
        !.rope_wave_length = Some(Gemma3RopeWaveLength),
        !.vocab_size = 262144,
        !.max_position_embeddings = 32768,
        !.tokenizer = Some(Gemma3Tokenizer),
        !.use_qk_norm = TRUE,
        !.vision_config = None]

get_config_for_4b(d) ==
    [GemmaConfig(d) EXCEPT
        !.architecture = GEMMA_3,
        !.num_hidden_layers = 34,
        !.num_attention_heads = 8,
        !.num_key_value_heads = 4,
        !.hidden_size = 2560,
        !.intermediate_size = 10240,
        !.use_pre_ffw_norm = TRUE,
        !.use_post_ffw_norm = TRUE,
        !.head_dim = 256,
        !.attn_types = Some(Gemma3AttnTypes),
        !.sliding_window_size = Some(1024),
        !.rope_wave_length = Some(Gemma3RopeWaveLength),
        !.vocab_size = 262144,
        !.tokenizer = Some(Gemma3Tokenizer),
        !.use_qk_norm = TRUE,
        !.vision_config = Some(SiglipVisionModelConfigRef),
        !.rope_scaling_factor = Some(8)]

get_config_for_12b(d) ==
    [GemmaConfig(d) EXCEPT
        !.architecture = GEMMA_3,
        !.num_hidden_layers = 48,
        !.num_attention_heads = 16,
        !.num_key_value_heads = 8,
        !.hidden_size = 3840,
        !.intermediate_size = (3840 * 8) \div 2,
        !.use_pre_ffw_norm = TRUE,
        !.use_post_ffw_norm = TRUE,
        !.head_dim = 256,
        !.attn_types = Some(Gemma3AttnTypes),
        !.sliding_window_size = Some(1024),
        !.rope_wave_length = Some(Gemma3RopeWaveLength),
        !.vocab_size = 262144,
        !.max_position_embeddings = 131072,
        !.tokenizer = Some(Gemma3Tokenizer),
        !.use_qk_norm = TRUE,
        !.vision_config = Some(SiglipVisionModelConfigRef),
        !.rope_scaling_factor = Some(8)]

get_config_for_27b_v3(d) ==
    [GemmaConfig(d) EXCEPT
        !.architecture = GEMMA_3,
        !.num_hidden_layers = 62,
        !.num_attention_heads = 32,
        !.num_key_value_heads = 16,
        !.hidden_size = 5376,
        !.intermediate_size = (5376 * 8) \div 2,
        !.use_pre_ffw_norm = TRUE,
        !.use_post_ffw_norm = TRUE,
        !.head_dim = 128,
        !.query_pre_attn_scalar = Some(5376 \div 32),
        !.attn_types = Some(Gemma3AttnTypes),
        !.sliding_window_size = Some(1024),
        !.rope_wave_length = Some(Gemma3RopeWaveLength),
        !.vocab_size = 262144,
        !.max_position_embeddings = 131072,
        !.tokenizer = Some(Gemma3Tokenizer),
        !.use_qk_norm = TRUE,
        !.vision_config = Some(SiglipVisionModelConfigRef),
        !.rope_scaling_factor = Some(8)]

\* The message of the ValueError get_model_config raises.
InvalidVariantMessage(v) ==
    "Invalid variant " \o v \o ". Supported variants are \"1b\", \"2b\", "
    \o "\"2b-v2\", \"4b\",, \"7b\", \"9b\" \"12b\", \"27b\", and \"27b_v3\"."

\* The result of get_model_config: [ret |-> Optional config, exc |-> Optional message].
Returns(c) == [ret |-> Some(c), exc |-> None]
Raises(msg) == [ret |-> None, exc |-> Some(msg)]

get_model_config_no_27b_v3(v, d) ==
    IF v = "7b" THEN Returns(get_config_for_7b(d))
    ELSE IF v = "2b" THEN Returns(get_config_for_2b(d))
    ELSE IF v = "2b-v2" THEN Returns(get_config_for_2b_v2(d))
    ELSE IF v = "9b" THEN Returns(get_config_for_9b(d))
    ELSE IF v = "27b" THEN Returns(get_config_for_27b(d))
    ELSE IF v = "1b" THEN Returns(get_config_for_1b(d))
    ELSE IF v = "4b" THEN Returns(get_config_for_4b(d))
    ELSE IF v = "12b" THEN Returns(get_config_for_12b(d))
    ELSE Raises(InvalidVariantMessage(v))

get_model_config(v, d) ==
    IF v = "7b" THEN Returns(get_config_for_7b(d))
    ELSE IF v = "2b" THEN Returns(get_config_for_2b(d))
    ELSE IF v = "2b-v2" THEN Returns(get_config_for_2b_v2(d))
    ELSE IF v = "9b" THEN Returns(get_config_for_9b(d))
    ELSE IF v = "27b" THEN Returns(get_config_for_27b(d))
    ELSE IF v = "1b" THEN Returns(get_config_for_1b(d))
    ELSE IF v = "4b" THEN Returns(get_config_for_4b(d))
    ELSE IF v = "12b" THEN Returns(get_config_for_12b(d))
    ELSE IF v = "27b_v3" THEN Returns(get_config_for_27b_v3(d))
    ELSE Raises(InvalidVariantMessage(v))

\* The variant and dtype strings the calls are made with.
VariantInputs ==
    {"1b", "2b", "2b-v2", "4b", "7b", "9b", "12b", "27b", "27b_v3",
     "", "7B", "2B", "2b_v2", "2b-V2", "27b-v3", "27b_v2", "3b", " 7b", "7b ",
     "b", "27"}

DtypeInputs ==
    {"float16", "float", "float32", "bfloat16",
     "", "int8", "float64", "half", "BFLOAT16", "Float32", "torch.float32"}

\* A call get_model_config(v, d).
CallGetModelConfig ==
    /\ cfg_pc = "idle"
    /\ \E v \in VariantInputs, d \in DtypeInputs :
        LET r == get_model_config(v, d) IN
        /\ variant' = v
        /\ dtype' = d
        /\ config' = r.ret
        /\ error' = r.exc
        /\ cfg_pc' = IF r.exc = None THEN "returned" ELSE "raised"
    /\ UNCHANGED <<torch_dtype, ap_vars, vt_vars>>

\* A call config.get_dtype() on the configuration returned.
CallGetDtype ==
    /\ cfg_pc = "returned"
    /\ torch_dtype' = get_dtype(config[1])
    /\ cfg_pc' = "resolved"
    /\ UNCHANGED <<variant, dtype, config, error, ap_vars, vt_vars>>

CfgNext == CallGetModelConfig \/ CallGetDtype


-----------------------------------------------------------------------------
(***************************************************************************)
(* Tensors.  A tensor of shape <<n1, ..., nk>> is a function from the      *)
(* zero-based index tuples of that shape to its elements.  An element is a *)
(* rational [num, den]; the inputs are integers (den = 1).                 *)
(***************************************************************************)

Front(s) == SubSeq(s, 1, Len(s) - 1)
Last(s) == s[Len(s)]

\* The position of an index in row-major (contiguous) order.
RECURSIVE FlatIndex(_, _)
FlatIndex(idx, shape) ==
    IF Len(idx) = 0 THEN 0
    ELSE FlatIndex(Front(idx), Front(shape)) * Last(shape) + Last(idx)

\* The index at a row-major position.
RECURSIVE Unflatten(_, _)
Unflatten(n, shape) ==
    IF Len(shape) = 0 THEN <<>>
    ELSE Append(Unflatten(n \div Last(shape), Front(shape)), n % Last(shape))

Indices3(shape) ==
    {<<a, b, c>> : a \in 0..(shape[1] - 1), b \in 0..(shape[2] - 1),
                   c \in 0..(shape[3] - 1)}

Indices4(shape) ==
    {<<a, b, c, d>> : a \in 0..(shape[1] - 1), b \in 0..(shape[2] - 1),
                      c \in 0..(shape[3] - 1), d \in 0..(shape[4] - 1)}

Indices(shape) == IF Len(shape) = 3 THEN Indices3(shape) ELSE Indices4(shape)

\* torch.Tensor.transpose(1, 2) of a 3-d tensor.
Transpose12Shape(shape) == <<shape[1], shape[3], shape[2]>>
Transpose12(t, shape) ==
    [idx \in Indices3(Transpose12Shape(shape)) |-> t[<<idx[1], idx[3], idx[2]>>]]

\* torch.Tensor.reshape: the elements in row-major order, under a new shape.
Reshape(t, old, new) ==
    [idx \in Indices(new) |-> t[Unflatten(FlatIndex(idx, new), old)]]

\* torch.Tensor.flatten(2) of a 4-d tensor.
Flatten2Shape(shape) == <<shape[1], shape[2], shape[3] * shape[4]>>
Flatten2(t, shape) == Reshape(t, shape, Flatten2Shape(shape))

\* The output extent of F.avg_pool2d along one axis (no padding, floor mode).
PoolOutSize(n, kernel, stride) ==
    IF n < kernel THEN 0 ELSE ((n - kernel) \div stride) + 1

AvgPool2dShape(shape, kernel, stride) ==
    <<shape[1], shape[2], PoolOutSize(shape[3], kernel, stride),
      PoolOutSize(shape[4], kernel, stride)>>

RECURSIVE SumNum(_, _)
SumNum(t, idxs) ==
    IF idxs = {} THEN 0
    ELSE LET i == CHOOSE j \in idxs : TRUE
         IN t[i].num + SumNum(t, idxs \ {i})

\* F.avg_pool2d(x, kernel_size, stride): the mean over each window.
AvgPool2d(t, shape, kernel, stride) ==
    [idx \in Indices4(AvgPool2dShape(shape, kernel, stride)) |->
        [num |-> SumNum(t, {<<idx[1], idx[2], idx[3] * stride + di,
                              idx[4] * stride + dj>> :
                                di \in 0..(kernel - 1), dj \in 0..(kernel - 1)}),
         den |-> kernel * kernel]]

-----------------------------------------------------------------------------
(***************************************************************************)
(* AveragePool2D.forward                                                   *)
(***************************************************************************)

MaxBatch == 1
MaxChannels == 2
MaxSeqLen == 64

KERNEL_SIZE == 4
STRIDE == 4

\* int(seq_len ** 0.5): the float square root, truncated.  The square root of
\* an integer below 2^52 is computed exactly when it is an integer.
RECURSIVE IntSqrtFrom(_, _)
IntSqrtFrom(n, w) == IF (w + 1) * (w + 1) > n THEN w ELSE IntSqrtFrom(n, w + 1)
IntSqrt(n) == IntSqrtFrom(n, 0)

NotSquareCheckGreater(width, seq_len) == width * width > seq_len

\* The condition of the if statement: width * width != seq_len
NotSquareCheck(width, seq_len) == width * width # seq_len

InvalidShapeMessage(seq_len) ==
    "Sequence length " \o IntToStr(seq_len)
    \o " is not a perfect square. Cannot reshape to a square image."

ReshapeToGridNoTranspose(t, shape, width) ==
    Reshape(t, shape, <<shape[1], shape[3], width, width>>)

\* x.transpose(1, 2).reshape(batch_size, channels, width, width)
ReshapeToGrid(t, shape, width) ==
    Reshape(Transpose12(t, shape), Transpose12Shape(shape),
            <<shape[1], shape[3], width, width>>)

\* x.flatten(2).transpose(1, 2)
FlattenToSequence(t, shape) ==
    Transpose12(Flatten2(t, shape), Flatten2Shape(shape))

Scalar(n) == [num |-> n, den |-> 1]

NoTensor == [shape |-> <<>>, data |-> <<>>]

\* The input tensors of the calls: an impulse at one position, and a ramp.
Impulse(shape, at) == [idx \in Indices3(shape) |-> Scalar(IF idx = at THEN 1 ELSE 0)]
Ramp(shape) == [idx \in Indices3(shape) |-> Scalar(FlatIndex(idx, shape) + 1)]

InputShapes ==
    {<<b, l, c>> : b \in 1..MaxBatch, l \in 0..MaxSeqLen, c \in 1..MaxChannels}

InputTensors(shape) ==
    {Ramp(shape)} \cup {Impulse(shape, at) : at \in Indices3(shape)}

\* batch_size, seq_len, channels = x.shape; width = int(seq_len**0.5); the
\* perfect-square check and its raise.
ApCall ==
    /\ ap_pc = "idle"
    /\ \E shape \in InputShapes :
        \E x \in InputTensors(shape) :
            LET seq_len == shape[2]
                width == IntSqrt(seq_len)
            IN
            /\ ap_in' = [shape |-> shape, data |-> x]
            /\ ap_x' = x
            /\ ap_shape' = shape
            /\ ap_width' = width
            /\ IF NotSquareCheck(width, seq_len)
               THEN /\ ap_pc' = "raised"
                    /\ ap_error' = Some(InvalidShapeMessage(seq_len))
               ELSE /\ ap_pc' = "checked"
                    /\ ap_error' = None
    /\ UNCHANGED <<cfg_vars, vt_vars>>

\* x = x.transpose(1, 2).reshape(batch_size, channels, width, width)
ApReshape ==
    /\ ap_pc = "checked"
    /\ ap_x' = ReshapeToGrid(ap_x, ap_shape, ap_width)
    /\ ap_shape' = <<ap_shape[1], ap_shape[3], ap_width, ap_width>>
    /\ ap_pc' = "reshaped"
    /\ UNCHANGED <<ap_in, ap_width, ap_error, cfg_vars, vt_vars>>

\* x = F.avg_pool2d(x, kernel_size=4, stride=4); the backend raises a
\* RuntimeError when the grid is smaller than the window.
ApPool ==
    /\ ap_pc = "reshaped"
    /\ IF PoolOutSize(ap_shape[3], KERNEL_SIZE, STRIDE) = 0
       THEN /\ ap_pc' = "backend_error"
            /\ UNCHANGED <<ap_x, ap_shape>>
       ELSE /\ ap_pc' = "pooled"
            /\ ap_x' = AvgPool2d(ap_x, ap_shape, KERNEL_SIZE, STRIDE)
            /\ ap_shape' = AvgPool2dShape(ap_shape, KERNEL_SIZE, STRIDE)
    /\ UNCHANGED <<ap_in, ap_width, ap_error, cfg_vars, vt_vars>>

\* x = x.flatten(2).transpose(1, 2); return x
ApFlatten ==
    /\ ap_pc = "pooled"
    /\ ap_x' = FlattenToSequence(ap_x, ap_shape)
    /\ ap_shape' = Transpose12Shape(Flatten2Shape(ap_shape))
    /\ ap_pc' = "returned"
    /\ UNCHANGED <<ap_in, ap_width, ap_error, cfg_vars, vt_vars>>

ApNext == ApCall \/ ApReshape \/ ApPool \/ ApFlatten

-----------------------------------------------------------------------------
(***************************************************************************)
(* SiglipVisionModel.  A tensor of the tower is its shape together with    *)
(* the expression that computes it: a sequence of tokens in prefix form,   *)
(* whose leaves are the input image and the weights read.                  *)
(***************************************************************************)

MaxLayers == 2

\* nn.Conv2d applied to the pixels.
Conv2d(weight, pixels) == <<"conv2d">> \o weight \o <<pixels.id>>
\* x.flatten(2).transpose(1, 2)
FlattenTranspose(x) == <<"flatten(2).transpose(1,2)">> \o x
\* torch.arange(n), by its length when the buffer holds 0..n-1.
IsArange(ids) == \A i \in 1..Len(ids) : ids[i] = i - 1
IdsToken(ids) ==
    IF IsArange(ids) THEN "arange(" \o IntToStr(Len(ids)) \o ")" ELSE "ids"
\* nn.Embedding applied to the position ids.
Embedding(table, ids) == <<"embedding">> \o table \o <<IdsToken(ids)>>
\* a + b
Add(a, b) == <<"add">> \o a \o b
LayerNorm(weight, x) == <<"layer_norm", weight>> \o x
Attention(weight, x) == <<"self_attn", weight>> \o x
MLP(weight, x) == <<"mlp", weight>> \o x
AvgPoolTerm(x) == <<"avg_pool">> \o x

ConvOutSizeStride1(n, kernel, stride, padding) ==
    IF n + 2 * padding < kernel THEN 0
    ELSE (n + 2 * padding - kernel) + 1

\* The output extent of nn.Conv2d along one axis (dilation 1).
ConvOutSize(n, kernel, stride, padding) ==
    IF n + 2 * padding < kernel THEN 0
    ELSE ((n + 2 * padding - kernel) \div stride) + 1

\* The geometries the configurations are drawn from: <<image_size, conv2d_patch_size>>.
Geometries ==
    {<<896, 14>>, <<224, 14>>, <<112, 14>>, <<56, 14>>, <<84, 14>>, <<70, 14>>,
     <<59, 14>>, <<28, 14>>, <<30, 14>>, <<14, 14>>, <<7, 14>>, <<16, 4>>, <<8, 2>>}

\* <<embedding_dim, num_attention_heads, head_dim, intermediate_size>>
Widths == {<<1152, 16, 72, 4304>>, <<8, 2, 4, 16>>}

\* The SiglipVisionModelConfig values the tower is constructed with.
VisionConfig(g, w, layers) ==
    [ input_channels |-> 3,
      embedding_dim |-> w[1],
      num_attention_heads |-> w[2],
      head_dim |-> w[3],
      intermediate_size |-> w[4],
      layer_norm_eps |-> "1e-6",
      conv2d_patch_size |-> g[2],
      image_size |-> g[1],
      embedding_use_bias |-> TRUE,
      num_hidden_layers |-> layers ]

VisionConfigs ==
    {VisionConfig(g, <<1152, 16, 72, 4304>>, n) : g \in Geometries, n \in 0..MaxLayers}
    \cup {VisionConfig(<<16, 4>>, <<8, 2, 4, 16>>, n) : n \in 0..MaxLayers}

NumPatchesNotSquared(cfg) == (cfg.image_size \div cfg.conv2d_patch_size) * 2

\* self.num_patches = (config.image_size // config.conv2d_patch_size) ** 2
NumPatches(cfg) ==
    (cfg.image_size \div cfg.conv2d_patch_size)
    * (cfg.image_size \div cfg.conv2d_patch_size)

\* torch.arange(n).expand((1, -1)): the row 0, 1, ..., n-1.
Arange(n) == [i \in 1..n |-> i - 1]

\* The weights of SiglipEncoderBlock number i.
EncoderBlockParams(i) ==
    [ layer_norm1 |-> "encoder_blocks." \o IntToStr(i) \o ".layer_norm1",
      self_attn |-> "encoder_blocks." \o IntToStr(i) \o ".self_attn",
      mlp |-> "encoder_blocks." \o IntToStr(i) \o ".mlp",
      layer_norm2 |-> "encoder_blocks." \o IntToStr(i) \o ".layer_norm2" ]

\* The weights SiglipVisionModel.__init__ creates.
InitialParams(cfg) ==
    [ patch_embedding |->
        IF cfg.embedding_use_bias
        THEN <<"patch_embedding.weight", "patch_embedding.bias">>
        ELSE <<"patch_embedding.weight">>,
      position_embedding |-> <<"position_embedding.weight">>,
      encoder_blocks |-> [i \in 1..cfg.num_hidden_layers |-> EncoderBlockParams(i - 1)],
      final_norm |-> "final_norm" ]

NoParams ==
    [ patch_embedding |-> <<>>, position_embedding |-> <<>>,
      encoder_blocks |-> <<>>, final_norm |-> "" ]

NoPixels == [id |-> "", shape |-> <<>>]

\* The locals of a call of forward that has not started.
NoCall ==
    [ pc |-> "ready", pixels |-> NoPixels, x |-> <<>>, shape |-> <<>>,
      layer |-> 0, error |-> None ]

\* SiglipVisionModel.__init__
VtConstruct ==
    /\ vt_pc = "unconstructed"
    /\ \E cfg \in VisionConfigs :
        /\ vt_config' = Some(cfg)
        /\ vt_num_patches' = NumPatches(cfg)
        /\ vt_num_positions' = NumPatches(cfg)
        /\ vt_position_ids' = Arange(NumPatches(cfg))
        /\ vt_params' = InitialParams(cfg)
    /\ vt_pc' = "ready"
    /\ UNCHANGED <<vt_pixels, vt_x, vt_shape, vt_layer, vt_error, vt_seen,
                   vt_other, cfg_vars, ap_vars>>

\* The pixel tensors forward is called with: of the configured shape, one
\* patch too wide, and with one channel too many.
PixelInputs(cfg) ==
    {[id |-> i, shape |-> <<b, cfg.input_channels, cfg.image_size, cfg.image_size>>] :
        i \in {"imageA", "imageB"}, b \in 1..MaxBatch}
    \cup
    {[id |-> "imageA",
      shape |-> <<b, cfg.input_channels, cfg.image_size,
                  cfg.image_size + cfg.conv2d_patch_size>>] : b \in 1..MaxBatch}
    \cup
    {[id |-> "imageA",
      shape |-> <<b, cfg.input_channels + 1, cfg.image_size, cfg.image_size>>] :
        b \in 1..MaxBatch}

\* The call forward(pixel_values).
VtCall ==
    /\ vt_pc = "ready"
    /\ \E px \in PixelInputs(vt_config[1]) : vt_pixels' = px
    /\ vt_pc' = "called"
    /\ UNCHANGED <<vt_module, vt_x, vt_shape, vt_layer, vt_error, vt_seen,
                   vt_other, cfg_vars, ap_vars>>

\* x = self.patch_embedding(pixel_values); the backend raises a RuntimeError
\* on a channel mismatch and on an image smaller than the kernel.
VtPatchEmbed ==
    /\ vt_pc = "called"
    /\ LET cfg == vt_config[1]
           in_shape == vt_pixels.shape
           h == ConvOutSize(in_shape[3], cfg.conv2d_patch_size, cfg.conv2d_patch_size, 0)
           w == ConvOutSize(in_shape[4], cfg.conv2d_patch_size, cfg.conv2d_patch_size, 0)
       IN
       IF in_shape[2] # cfg.input_channels \/ h = 0 \/ w = 0
       THEN /\ vt_pc' = "backend_error"
            /\ vt_error' = Some("RuntimeError in patch_embedding")
            /\ UNCHANGED <<vt_x, vt_shape>>
       ELSE /\ vt_pc' = "patch_embedded"
            /\ vt_x' = Conv2d(vt_params.patch_embedding, vt_pixels)
            /\ vt_shape' = <<in_shape[1], cfg.embedding_dim, h, w>>
            /\ UNCHANGED vt_error
    /\ UNCHANGED <<vt_module, vt_pixels, vt_layer, vt_seen,
                   vt_other, cfg_vars, ap_vars>>

\* x = x.flatten(2).transpose(1, 2)
VtFlatten ==
    /\ vt_pc = "patch_embedded"
    /\ vt_x' = FlattenTranspose(vt_x)
    /\ vt_shape' = Transpose12Shape(Flatten2Shape(vt_shape))
    /\ vt_pc' = "flattened"
    /\ UNCHANGED <<vt_module, vt_pixels, vt_layer, vt_error, vt_seen,
                   vt_other, cfg_vars, ap_vars>>

\* Broadcasting of two extents: equal, or one of them 1.
Broadcastable(m, n) == m = n \/ m = 1 \/ n = 1
BroadcastSize(m, n) == IF m = 1 THEN n ELSE m

PositionTableAfterAddInPlace(table, x) == <<"add">> \o table \o x

\* The position table after x = x + self.position_embedding(position_ids):
\* the sum is a new tensor and the table is left as it was.
PositionTableAfterAdd(table, x) == table

PositionIdsAfterLookupShifted(ids) == [i \in DOMAIN ids |-> ids[i] + 1]

\* The buffer after position_ids = self.position_ids.to(...) and the lookup
\* self.position_embedding(position_ids): the local may alias the buffer and
\* is only read.
PositionIdsAfterLookup(ids) == ids

\* position_ids = self.position_ids.to(...); x = x + self.position_embedding(position_ids)
\* The backend raises a RuntimeError when the two lengths do not broadcast.
VtAddPosition ==
    /\ vt_pc = "flattened"
    /\ LET n == Len(vt_position_ids) IN
       IF Broadcastable(vt_shape[2], n)
       THEN /\ vt_pc' = "positioned"
            /\ vt_x' = Add(vt_x, Embedding(vt_params.position_embedding, vt_position_ids))
            /\ vt_shape' = <<vt_shape[1], BroadcastSize(vt_shape[2], n), vt_shape[3]>>
            /\ vt_params' = [vt_params EXCEPT !.position_embedding =
                                PositionTableAfterAdd(@, vt_x)]
            /\ UNCHANGED vt_error
       ELSE /\ vt_pc' = "backend_error"
            /\ vt_error' = Some("RuntimeError in position add")
            /\ UNCHANGED <<vt_x, vt_shape, vt_params>>
    /\ vt_position_ids' = PositionIdsAfterLookup(vt_position_ids)
    /\ vt_layer' = 0
    /\ UNCHANGED <<vt_config, vt_num_patches, vt_num_positions,
                   vt_pixels, vt_seen, vt_other, cfg_vars, ap_vars>>

EncoderBlockForwardNormedResidual(block, x) ==
    LET x1 == LayerNorm(block.layer_norm1, x)
        residual1 == x1
        x2 == Attention(block.self_attn, x1)
        x3 == Add(x2, residual1)
        x4 == LayerNorm(block.layer_norm2, x3)
        residual2 == x4
        x5 == MLP(block.mlp, x4)
    IN Add(x5, residual2)

\* SiglipEncoderBlock.forward
EncoderBlockForward(block, x) ==
    LET residual1 == x
        x1 == LayerNorm(block.layer_norm1, x)
        x2 == Attention(block.self_attn, x1)
        x3 == Add(x2, residual1)
        residual2 == x3
        x4 == LayerNorm(block.layer_norm2, x3)
        x5 == MLP(block.mlp, x4)
    IN Add(x5, residual2)

\* The shape nn.Linear(in_features, out_features) gives.
LinearShape(shape, out_features) == <<shape[1], shape[2], out_features>>

\* The shape SiglipEncoderBlock.forward gives: the attention projects to
\* num_heads * head_dim and back to dim, the MLP to intermediate_size and back.
EncoderBlockShape(cfg, shape) ==
    LET attn_in == LinearShape(shape, cfg.num_attention_heads * cfg.head_dim)
        attn_out == LinearShape(attn_in, cfg.embedding_dim)
        fc1 == LinearShape(attn_out, cfg.intermediate_size)
    IN LinearShape(fc1, cfg.embedding_dim)

BlockAtIterationReversed(blocks, i) == blocks[Len(blocks) - i]

\* The block iteration number i (from 0) of `for block in self.encoder_blocks`
\* takes: a ModuleList iterates in the order of construction.
BlockAtIteration(blocks, i) == blocks[i + 1]

\* for block in self.encoder_blocks: x = block(x)   (one iteration)
VtEncoderBlock ==
    /\ vt_pc = "positioned"
    /\ vt_layer < Len(vt_params.encoder_blocks)
    /\ vt_x' = EncoderBlockForward(BlockAtIteration(vt_params.encoder_blocks, vt_layer), vt_x)
    /\ vt_shape' = EncoderBlockShape(vt_config[1], vt_shape)
    /\ vt_layer' = vt_layer + 1
    /\ UNCHANGED <<vt_module, vt_pc, vt_pixels, vt_error, vt_seen, vt_other, cfg_vars, ap_vars>>

\* x = self.final_norm(x), once the loop is over
VtFinalNorm ==
    /\ vt_pc = "positioned"
    /\ vt_layer = Len(vt_params.encoder_blocks)
    /\ vt_x' = LayerNorm(vt_params.final_norm, vt_x)
    /\ vt_pc' = "normed"
    /\ UNCHANGED <<vt_module, vt_pixels, vt_shape, vt_layer, vt_error, vt_seen,
                   vt_other, cfg_vars, ap_vars>>

AveragePool2DOutcomeKernel2(shape) ==
    LET seq_len == shape[2]
        width == IntSqrt(seq_len)
        pooled == AvgPool2dShape(<<shape[1], shape[3], width, width>>, 2, 2)
    IN
    IF NotSquareCheck(width, seq_len)
    THEN [kind |-> "raised", shape |-> shape,
          error |-> Some(InvalidShapeMessage(seq_len))]
    ELSE IF PoolOutSize(width, 2, 2) = 0
    THEN [kind |-> "backend_error", shape |-> shape,
          error |-> Some("RuntimeError in avg_pool2d")]
    ELSE [kind |-> "returned", shape |-> Transpose12Shape(Flatten2Shape(pooled)),
          error |-> None]

\* AveragePool2D.forward on a tensor of the given shape: how the call ends
\* and the shape it returns.
AveragePool2DOutcome(shape) ==
    LET seq_len == shape[2]
        width == IntSqrt(seq_len)
        pooled == AvgPool2dShape(<<shape[1], shape[3], width, width>>,
                                 KERNEL_SIZE, STRIDE)
    IN
    IF NotSquareCheck(width, seq_len)
    THEN [kind |-> "raised", shape |-> shape,
          error |-> Some(InvalidShapeMessage(seq_len))]
    ELSE IF PoolOutSize(width, KERNEL_SIZE, STRIDE) = 0
    THEN [kind |-> "backend_error", shape |-> shape,
          error |-> Some("RuntimeError in avg_pool2d")]
    ELSE [kind |-> "returned", shape |-> Transpose12Shape(Flatten2Shape(pooled)),
          error |-> None]

\* return self.avg_pool(x)
VtAvgPool ==
    /\ vt_pc = "normed"
    /\ LET out == AveragePool2DOutcome(vt_shape) IN
        /\ vt_pc' = out.kind
        /\ vt_shape' = out.shape
        /\ vt_error' = out.error
        /\ vt_x' = IF out.kind = "returned" THEN AvgPoolTerm(vt_x) ELSE vt_x
    /\ UNCHANGED <<vt_module, vt_pixels, vt_layer, vt_seen, vt_other, cfg_vars, ap_vars>>

VtFinished == vt_pc \in {"returned", "raised", "backend_error"}

\* How the call in progress ended: its kind and, when it returned, its value.
VtOutcome ==
    [ kind |-> vt_pc,
      x |-> IF vt_pc = "returned" THEN vt_x ELSE <<>>,
      shape |-> IF vt_pc = "returned" THEN vt_shape ELSE <<>>,
      error |-> vt_error ]

\* The caller takes the result (or the exception); the locals of the call are
\* gone.  The call may be the one a later call is compared with.
VtFinish ==
    /\ VtFinished
    /\ \E remember \in BOOLEAN :
        vt_seen' = IF remember
                   THEN Some([pixels |-> vt_pixels, outcome |-> VtOutcome,
                              others |-> FALSE])
                   ELSE IF vt_seen # None /\ vt_seen[1].pixels # vt_pixels
                   THEN Some([vt_seen[1] EXCEPT !.others = TRUE])
                   ELSE vt_seen
    /\ vt_pc' = "ready"
    /\ vt_pixels' = NoPixels
    /\ vt_x' = <<>>
    /\ vt_shape' = <<>>
    /\ vt_layer' = 0
    /\ vt_error' = None
    /\ UNCHANGED <<vt_module, vt_other, cfg_vars, ap_vars>>

\* Two threads call forward on the same module: the thread that runs is
\* suspended with its locals and the other one goes on from where it was.
VtSwitch ==
    /\ vt_pc # "unconstructed"
    /\ vt_other # [pc |-> vt_pc, pixels |-> vt_pixels, x |-> vt_x, shape |-> vt_shape,
                    layer |-> vt_layer, error |-> vt_error]
    /\ vt_other' = [pc |-> vt_pc, pixels |-> vt_pixels, x |-> vt_x, shape |-> vt_shape,
                    layer |-> vt_layer, error |-> vt_error]
    /\ vt_pc' = vt_other.pc
    /\ vt_pixels' = vt_other.pixels
    /\ vt_x' = vt_other.x
    /\ vt_shape' = vt_other.shape
    /\ vt_layer' = vt_other.layer
    /\ vt_error' = vt_other.error
    /\ UNCHANGED <<vt_module, vt_seen, cfg_vars, ap_vars>>

VtNext ==
    \/ VtConstruct
    \/ VtCall
    \/ VtPatchEmbed
    \/ VtFlatten
    \/ VtAddPosition
    \/ VtEncoderBlock
    \/ VtFinalNorm
    \/ VtAvgPool
    \/ VtFinish

\* The steps of two threads that call forward on one constructed module.
VtSharedNext ==
    \/ VtCall
    \/ VtPatchEmbed
    \/ VtFlatten
    \/ VtAddPosition
    \/ VtEncoderBlock
    \/ VtFinalNorm
    \/ VtAvgPool
    \/ VtFinish
    \/ VtSwitch

\* The geometries of the modules two threads share: 16 patches, which pool to
\* one token, and a single patch, which is too small to pool.
SharedGeometries == {<<16, 4>>, <<14, 14>>}

SharedConfigs ==
    {VisionConfig(g, <<8, 2, 4, 16>>, n) : g \in SharedGeometries, n \in 0..MaxLayers}

-----------------------------------------------------------------------------
(***************************************************************************)
(* Specifications                                                          *)
(***************************************************************************)

\* Nothing has been called and the tower has not been constructed.
Init ==
    /\ cfg_pc = "idle"
    /\ variant = ""
    /\ dtype = ""
    /\ config = None
    /\ error = None
    /\ torch_dtype = "None"
    /\ ap_pc = "idle"
    /\ ap_in = NoTensor
    /\ ap_x = <<>>
    /\ ap_shape = <<>>
    /\ ap_width = 0
    /\ ap_error = None
    /\ vt_config = None
    /\ vt_num_patches = 0
    /\ vt_num_positions = 0
    /\ vt_position_ids = <<>>
    /\ vt_params = NoParams
    /\ vt_pc = "unconstructed"
    /\ vt_pixels = NoPixels
    /\ vt_x = <<>>
    /\ vt_shape = <<>>
    /\ vt_layer = 0
    /\ vt_error = None
    /\ vt_seen = None
    /\ vt_other = NoCall

\* Calls of get_model_config and get_dtype.
SpecConfig == Init /\ [][CfgNext]_vars

\* Calls of AveragePool2D.forward.
SpecPool == Init /\ [][ApNext]_vars

\* Construction of the vision tower and calls of its forward.
SpecVision == Init /\ [][VtNext]_vars

\* The tower has been constructed and no thread has called forward yet.
InitShared ==
    /\ cfg_pc = "idle"
    /\ variant = ""
    /\ dtype = ""
    /\ config = None
    /\ error = None
    /\ torch_dtype = "None"
    /\ ap_pc = "idle"
    /\ ap_in = NoTensor
    /\ ap_x = <<>>
    /\ ap_shape = <<>>
    /\ ap_width = 0
    /\ ap_error = None
    /\ \E cfg \in SharedConfigs :
        /\ vt_config = Some(cfg)
        /\ vt_num_patches = NumPatches(cfg)
        /\ vt_num_positions = NumPatches(cfg)
        /\ vt_position_ids = Arange(NumPatches(cfg))
        /\ vt_params = InitialParams(cfg)
    /\ vt_pc = "ready"
    /\ vt_pixels = NoPixels
    /\ vt_x = <<>>
    /\ vt_shape = <<>>
    /\ vt_layer = 0
    /\ vt_error = None
    /\ vt_seen = None
    /\ vt_other = NoCall

\* Calls of forward from two threads that share one constructed tower.
SpecVisionShared == InitShared /\ [][VtSharedNext]_vars

Next == CfgNext \/ ApNext \/ VtNext \/ VtSwitch

Spec == Init /\ [][Next]_vars

-----------------------------------------------------------------------------
(***************************************************************************)
(* Properties of the configuration registry                               *)
(***************************************************************************)

\* The nine variant names the specification registers.
ValidVariants == {"1b", "2b", "2b-v2", "4b", "7b", "9b", "12b", "27b", "27b_v3"}

\* The variants whose constructors build a Gemma 1 or Gemma 2 configuration.
FullScheduleVariants == {"2b", "7b", "2b-v2", "9b", "27b"}

\* The variants whose constructors build a Gemma 3 configuration.
PatternScheduleVariants == {"1b", "4b", "12b", "27b_v3"}

HasConfig == cfg_pc \in {"returned", "resolved"} /\ config # None

HasSchedule == HasConfig /\ config[1].attn_types # None

HasLocalSliding ==
    /\ HasSchedule
    /\ \E i \in 1..Len(config[1].attn_types[1]) :
          config[1].attn_types[1][i] = LOCAL_SLIDING

\* C1 as stated: for every variant and dtype, the attention-type schedule of
\* the configuration returned, when present, is as long as num_hidden_layers.
C1_ScheduleLengthAllVariants ==
    HasSchedule =>
        Len(config[1].attn_types[1]) = config[1].num_hidden_layers

\* C1 as amended: the schedule, when present, is as long as num_hidden_layers
\* for the variants 2b, 7b, 2b-v2, 9b and 27b; for 1b, 4b, 12b and 27b_v3 it
\* is the 6-entry pattern of five LOCAL_SLIDING and one GLOBAL, which is
\* shorter than num_hidden_layers.
C1_ScheduleLength ==
    HasSchedule =>
        /\ variant \in FullScheduleVariants =>
              Len(config[1].attn_types[1]) = config[1].num_hidden_layers
        /\ variant \in PatternScheduleVariants =>
              /\ config[1].attn_types[1] =
                    <<LOCAL_SLIDING, LOCAL_SLIDING, LOCAL_SLIDING,
                      LOCAL_SLIDING, LOCAL_SLIDING, GLOBAL>>
              /\ Len(config[1].attn_types[1]) < config[1].num_hidden_layers
        /\ variant \in FullScheduleVariants \cup PatternScheduleVariants

C1_Witness ==
    /\ HasSchedule
    /\ variant = "2b-v2"
    /\ Len(config[1].attn_types[1]) = 26
    /\ config[1].num_hidden_layers = 26

\* C2: get_model_config returns a configuration exactly for the nine
\* registered names, compared exactly; for any other string it raises, returns
\* nothing, and the message holds the offending string and all nine names.
C2_InvalidVariant ==
    cfg_pc # "idle" =>
        /\ (config # None) <=> (variant \in ValidVariants)
        /\ (error # None) <=> (variant \notin ValidVariants)
        /\ (cfg_pc = "raised") <=> (variant \notin ValidVariants)
        /\ error # None =>
              /\ config = None
              /\ Contains(error[1], variant)
              /\ \A n \in ValidVariants : Contains(error[1], n)

C2_Witness ==
    /\ cfg_pc = "raised"
    /\ variant = "7B"
    /\ config = None
    /\ Contains(error[1], "7B")
    /\ Contains(error[1], "27b_v3")

\* The numeric type the specification assigns to a dtype string.
ExpectedTorchDtype(d) ==
    CASE d = "float16" -> "torch.float16"
      [] d \in {"float", "float32"} -> "torch.float32"
      [] d = "bfloat16" -> "torch.bfloat16"
      [] OTHER -> "None"

\* C8: for a valid variant no dtype string is rejected: the configuration
\* returned carries the string as given, and get_dtype resolves it to float16,
\* float32 (for float and float32), bfloat16, or None for any other string.
C8_DtypeNeverRejected ==
    /\ (cfg_pc # "idle" /\ variant \in ValidVariants) =>
          /\ error = None
          /\ config # None
          /\ config[1].dtype = dtype
    /\ cfg_pc = "resolved" => torch_dtype = ExpectedTorchDtype(dtype)

C8_Witness ==
    /\ cfg_pc = "resolved"
    /\ dtype = "int8"
    /\ config[1].dtype = "int8"
    /\ torch_dtype = "None"

\* C9: a configuration returned with a LOCAL_SLIDING entry in its schedule
\* has sliding_window_size set.
C9_SlidingWindowSet ==
    HasLocalSliding => config[1].sliding_window_size # None

C9_Witness ==
    /\ HasLocalSliding
    /\ variant = "1b"
    /\ config[1].sliding_window_size = Some(512)

-----------------------------------------------------------------------------
(***************************************************************************)
(* Properties of AveragePool2D.forward                                     *)
(***************************************************************************)

IsPerfectSquare(n) == \E r \in 0..n : r * r = n

ApFinished == ap_pc \in {"returned", "raised", "backend_error"}

\* C3: the call raises the ValueError, with seq_len in its message, exactly
\* when seq_len is not a perfect square; the check comes before the reshape
\* and the pooling, so a rejected input is left as it was and nothing is
\* returned, and every perfect square passes the check.
C3_InvalidShape ==
    ap_pc # "idle" =>
        /\ (ap_pc = "raised") <=> ~IsPerfectSquare(ap_in.shape[2])
        /\ (ap_error # None) <=> ~IsPerfectSquare(ap_in.shape[2])
        /\ ap_pc = "raised" =>
              /\ Contains(ap_error[1], IntToStr(ap_in.shape[2]))
              /\ ap_x = ap_in.data
              /\ ap_shape = ap_in.shape
        /\ ap_pc \in {"checked", "reshaped", "pooled", "returned", "backend_error"} =>
              IsPerfectSquare(ap_in.shape[2])

C3_Witness ==
    /\ ap_pc = "raised"
    /\ ap_in.shape[2] = 50
    /\ Contains(ap_error[1], "50")
    /\ ap_x = ap_in.data

\* The input positions of window k of an s-by-s grid laid out in row-major
\* order and cut into non-overlapping 4x4 windows, themselves in row-major order.
Window(s, k) ==
    {(4 * (k \div (s \div 4)) + di) * s + 4 * (k % (s \div 4)) + dj :
        di \in 0..3, dj \in 0..3}

RECURSIVE SumOver(_, _, _, _)
SumOver(data, b, c, ps) ==
    IF ps = {} THEN 0
    ELSE LET q == CHOOSE r \in ps : TRUE
         IN data[<<b, q, c>>].num + SumOver(data, b, c, ps \ {q})

\* The call returned (batch, L/16, channels), each output position the mean of
\* the 16 input positions of its window, each input position in one window.
PooledByWindows(s) ==
    LET L == ap_in.shape[2]
        B == ap_in.shape[1]
        C == ap_in.shape[3]
    IN
    /\ ap_pc = "returned"
    /\ 16 * (L \div 16) = L
    /\ ap_shape = <<B, L \div 16, C>>
    /\ DOMAIN ap_x = Indices3(<<B, L \div 16, C>>)
    /\ \A b \in 0..(B - 1), k \in 0..((L \div 16) - 1), c \in 0..(C - 1) :
          /\ Cardinality(Window(s, k)) = 16
          /\ Window(s, k) \subseteq 0..(L - 1)
          /\ ap_x[<<b, k, c>>] =
                [num |-> SumOver(ap_in.data, b, c, Window(s, k)), den |-> 16]
    /\ UNION {Window(s, k) : k \in 0..((L \div 16) - 1)} = 0..(L - 1)
    /\ \A k1, k2 \in 0..((L \div 16) - 1) :
          k1 # k2 => Window(s, k1) \cap Window(s, k2) = {}

\* C4 as stated: every call with L = s*s and s divisible by 4 returns the
\* tensor pooled by windows.
C4_PoolEveryMultipleOf4 ==
    ApFinished =>
        \A s \in 0..ap_in.shape[2] :
            (s * s = ap_in.shape[2] /\ s % 4 = 0) => PooledByWindows(s)

\* C4 as amended: every call with L = s*s and s a positive multiple of 4
\* returns the tensor pooled by windows.
C4_PoolByWindows ==
    ApFinished =>
        \A s \in 1..ap_in.shape[2] :
            (s * s = ap_in.shape[2] /\ s % 4 = 0) => PooledByWindows(s)

C4_Witness ==
    /\ ap_pc = "returned"
    /\ ap_in.shape = <<1, 64, 2>>
    /\ ap_in.data[<<0, 63, 1>>] = Scalar(128)
    /\ ap_shape = <<1, 4, 2>>
    /\ PooledByWindows(8)

-----------------------------------------------------------------------------
(***************************************************************************)
(* Properties of SiglipVisionModel                                         *)
(***************************************************************************)

VtConstructed == vt_config # None

\* The call in progress has pixels of the configured shape.
VtMatching ==
    /\ VtConstructed
    /\ vt_pc \notin {"unconstructed", "ready"}
    /\ vt_pixels.shape[2] = vt_config[1].input_channels
    /\ vt_pixels.shape[3] = vt_config[1].image_size
    /\ vt_pixels.shape[4] = vt_config[1].image_size

\* The side of the patch grid of the configuration.
GridSide == vt_config[1].image_size \div vt_config[1].conv2d_patch_size

ReturnsPooledShape ==
    /\ vt_pc = "returned"
    /\ 16 * (vt_num_patches \div 16) = vt_num_patches
    /\ vt_shape = <<vt_pixels.shape[1], vt_num_patches \div 16,
                    vt_config[1].embedding_dim>>

\* The invariants the specification puts on a vision configuration.
WellFormedConfig ==
    /\ vt_config[1].image_size % vt_config[1].conv2d_patch_size = 0
    /\ vt_config[1].embedding_dim =
          vt_config[1].num_attention_heads * vt_config[1].head_dim

C6_PatchSequenceLength ==
    (VtConstructed /\ vt_config[1].image_size % vt_config[1].conv2d_patch_size = 0) =>
        /\ vt_num_patches = GridSide * GridSide
        /\ vt_num_positions = GridSide * GridSide
        /\ vt_position_ids = [i \in 1..(GridSide * GridSide) |-> i - 1]
        /\ VtMatching =>
              /\ vt_pc \in {"flattened", "positioned"} =>
                    /\ vt_shape[2] = GridSide * GridSide
                    /\ vt_shape[2] = Len(vt_position_ids)
              /\ vt_error \notin {Some("RuntimeError in patch_embedding"),
                                  Some("RuntimeError in position add")}

C6_Witness ==
    /\ VtMatching
    /\ vt_config[1].image_size = 112
    /\ vt_config[1].conv2d_patch_size = 14
    /\ vt_pc = "positioned"
    /\ vt_shape[2] = 64
    /\ Len(vt_position_ids) = 64

\* C7: with image_size = 896 and conv2d_patch_size = 14, num_patches is 4096,
\* the sequence length is 4096 after the flatten, the position add, every
\* encoder block and the final normalization, and the pooling returns 256
\* positions; no error is raised.
C7_EndToEnd896 ==
    (VtConstructed /\ vt_config[1].image_size = 896
                   /\ vt_config[1].conv2d_patch_size = 14) =>
        /\ vt_num_patches = 4096
        /\ VtMatching =>
              /\ vt_pc \in {"flattened", "positioned", "normed"} => vt_shape[2] = 4096
              /\ vt_pc = "returned" => vt_shape[2] = 256
              /\ vt_pc \notin {"raised", "backend_error"}
              /\ vt_error = None

C7_Witness ==
    /\ VtMatching
    /\ vt_config[1].image_size = 896
    /\ vt_config[1].conv2d_patch_size = 14
    /\ vt_layer = 2
    /\ vt_pc = "returned"
    /\ vt_shape = <<1, 256, 1152>>

\* C10: a call that ends has the outcome of any earlier call with the same
\* input, whatever calls ended in between.
C10_Deterministic ==
    (VtFinished /\ vt_seen # None /\ vt_seen[1].pixels = vt_pixels) =>
        vt_seen[1].outcome = VtOutcome

C10_Witness ==
    /\ vt_pc = "returned"
    /\ vt_seen # None
    /\ vt_seen[1].pixels = vt_pixels
    /\ vt_seen[1].others
    /\ vt_seen[1].outcome = VtOutcome
    /\ vt_layer > 0

\* The sum a + b, whichever operand the code writes first.
Sums(a, b) == {<<"add">> \o a \o b, <<"add">> \o b \o a}

\* x' = x + SelfAttention(LayerNorm1(x)) for the weights of a block.
FirstResidualForms(block, x) ==
    Sums(x, <<"self_attn", block.self_attn, "layer_norm", block.layer_norm1>> \o x)

\* x'' = x' + MLP(LayerNorm2(x')) for the weights of a block.
SecondResidualForms(block, x1) ==
    Sums(x1, <<"mlp", block.mlp, "layer_norm", block.layer_norm2>> \o x1)

PreNormForms(block, x) ==
    UNION {SecondResidualForms(block, x1) : x1 \in FirstResidualForms(block, x)}

\* A step of the for loop: one encoder block applied to x.
IsBlockStep ==
    /\ vt_pc = "positioned"
    /\ vt_pc' = "positioned"
    /\ vt_layer' = vt_layer + 1

\* C11: every encoder block returns x'' = x' + MLP(LayerNorm2(x')) with
\* x' = x + SelfAttention(LayerNorm1(x)): the first residual is the block
\* input, the second is x', and LayerNorm1, SelfAttention, LayerNorm2 and MLP
\* are each applied once, in that order, with the weights of that block.
C11_PreNormResidual ==
    [][IsBlockStep =>
          vt_x' \in PreNormForms(vt_params.encoder_blocks[vt_layer + 1], vt_x)]_vars

\* The expression of x after the position embedding is added.
PositionedInput ==
    <<"add", "flatten(2).transpose(1,2)", "conv2d">> \o vt_params.patch_embedding
    \o <<vt_pixels.id, "embedding">> \o vt_params.position_embedding
    \o <<"arange(" \o IntToStr(vt_num_positions) \o ")">>

C11_Witness ==
    /\ vt_pc = "positioned"
    /\ vt_layer = 1
    /\ vt_x \in PreNormForms(vt_params.encoder_blocks[1], PositionedInput)
    /\ vt_x[1] = "add"
    /\ vt_x[2] = "mlp"
    /\ vt_x[3] = "encoder_blocks.0.mlp"
    /\ vt_x[4] = "layer_norm"
    /\ vt_x[5] = "encoder_blocks.0.layer_norm2"

\* The expression of x after the first k encoder blocks, block i + 1 taking
\* the output of block i.
RECURSIVE AfterBlocks(_)
AfterBlocks(k) ==
    IF k = 0 THEN PositionedInput
    ELSE EncoderBlockForward(vt_params.encoder_blocks[k], AfterBlocks(k - 1))

NumBlocks == vt_config[1].num_hidden_layers

\* What x is at each position of a call: the stages so far, each once, in order.
StageExpression ==
    /\ vt_pc = "patch_embedded" =>
          vt_x = <<"conv2d">> \o vt_params.patch_embedding \o <<vt_pixels.id>>
    /\ vt_pc = "flattened" =>
          vt_x = <<"flatten(2).transpose(1,2)", "conv2d">>
                 \o vt_params.patch_embedding \o <<vt_pixels.id>>
    /\ vt_pc = "positioned" =>
          /\ vt_layer \in 0..NumBlocks
          /\ vt_x = AfterBlocks(vt_layer)
    /\ vt_pc = "normed" =>
          /\ vt_layer = NumBlocks
          /\ vt_x = <<"layer_norm", vt_params.final_norm>> \o AfterBlocks(NumBlocks)
    /\ vt_pc = "returned" =>
          /\ vt_layer = NumBlocks
          /\ vt_x = <<"avg_pool", "layer_norm", vt_params.final_norm>>
                    \o AfterBlocks(NumBlocks)

\* The blocks are num_hidden_layers separate blocks, no two with a weight in common.
SeparateBlocks ==
    VtConstructed =>
        /\ Len(vt_params.encoder_blocks) = NumBlocks
        /\ \A i, j \in 1..NumBlocks :
              i # j =>
                {vt_params.encoder_blocks[i].layer_norm1,
                 vt_params.encoder_blocks[i].self_attn,
                 vt_params.encoder_blocks[i].mlp,
                 vt_params.encoder_blocks[i].layer_norm2}
                \cap
                {vt_params.encoder_blocks[j].layer_norm1,
                 vt_params.encoder_blocks[j].self_attn,
                 vt_params.encoder_blocks[j].mlp,
                 vt_params.encoder_blocks[j].layer_norm2} = {}

\* The moves of a call from one position to the next.
StageOrder ==
    {<<"ready", "called">>,
     <<"called", "patch_embedded">>, <<"called", "backend_error">>,
     <<"patch_embedded", "flattened">>,
     <<"flattened", "positioned">>, <<"flattened", "backend_error">>,
     <<"positioned", "normed">>,
     <<"normed", "returned">>, <<"normed", "raised">>, <<"normed", "backend_error">>,
     <<"returned", "ready">>, <<"raised", "ready">>, <<"backend_error", "ready">>,
     <<"unconstructed", "ready">>}

StageStep ==
    /\ vt_pc' # vt_pc => <<vt_pc, vt_pc'>> \in StageOrder
    /\ (vt_pc' = vt_pc /\ vt_layer' # vt_layer) =>
          /\ vt_pc = "positioned"
          /\ vt_layer' = vt_layer + 1
          /\ vt_layer < NumBlocks
    /\ vt_pc' = "normed" => (vt_pc = "positioned" /\ vt_layer = NumBlocks)
    /\ vt_pc' = "returned" => vt_pc = "normed"

\* C12: a call runs patch embedding, position add, the blocks 0 ..
\* num_hidden_layers-1 in increasing order (each on the output of the one
\* before, none skipped, repeated or shared), final normalization and
\* pooling, each once; the final normalization follows the last block and
\* the pooling follows the final normalization.
C12_StageOrder ==
    /\ [](StageExpression /\ SeparateBlocks)
    /\ [][StageStep]_vars

C12_Witness ==
    /\ vt_pc = "returned"
    /\ NumBlocks = 2
    /\ vt_layer = 2
    /\ vt_x = <<"avg_pool", "layer_norm", "final_norm">> \o AfterBlocks(2)
    /\ vt_params.encoder_blocks[1].mlp = "encoder_blocks.0.mlp"
    /\ vt_params.encoder_blocks[2].mlp = "encoder_blocks.1.mlp"
    /\ vt_x[4] = "add"
    /\ vt_x[5] = "mlp"
    /\ vt_x[6] = "encoder_blocks.1.mlp"

-----------------------------------------------------------------------------
(***************************************************************************)
(* Calls of forward that share the module                                  *)
(***************************************************************************)

\* The step leaves the configuration, the patch counts and the position-index
\* buffer as they were.
ConfigAndBufferKept ==
    /\ vt_config' = vt_config
    /\ vt_num_patches' = vt_num_patches
    /\ vt_num_positions' = vt_num_positions
    /\ vt_position_ids' = vt_position_ids

\* The step leaves every weight as it was: the convolution kernel and bias,
\* the position table, the weights of every block and the final norm.
WeightsKept ==
    /\ vt_params'.patch_embedding = vt_params.patch_embedding
    /\ vt_params'.position_embedding = vt_params.position_embedding
    /\ vt_params'.encoder_blocks = vt_params.encoder_blocks
    /\ vt_params'.final_norm = vt_params.final_norm

\* The module holds what __init__ stored in it.
ModuleAsConstructed ==
    /\ vt_config # None
    /\ vt_num_patches = NumPatches(vt_config[1])
    /\ vt_num_positions = NumPatches(vt_config[1])
    /\ vt_position_ids = Arange(NumPatches(vt_config[1]))
    /\ vt_params = InitialParams(vt_config[1])

\* C13: whatever the calls of forward on a constructed tower, one after the
\* other or interleaved, ending in a value or in an error, no step of them
\* changes the configuration, a weight or the position-index buffer, so the
\* module stays as it was constructed.
C13_ForwardOnlyReads ==
    /\ [][ConfigAndBufferKept /\ WeightsKept]_vars
    /\ []ModuleAsConstructed

\* One call has ended in the ValueError of the pooling, the call of the other
\* thread is inside the block loop, a third call has finished before, and the
\* module is as it was constructed.
C13_Witness ==
    /\ vt_pc = "raised"
    /\ vt_error # None
    /\ vt_other.pc = "positioned"
    /\ vt_other.layer = 1
    /\ vt_seen # None
    /\ vt_seen[1].outcome.kind = "backend_error"
    /\ ModuleAsConstructed

====
